---- MODULE Spec2Model ----
(***************************************************************************)
(* A model of selcald.py, the ICAO SELCAL live decoder.                    *)
(*                                                                         *)
(* Units.  Times are in centiseconds (0.01 s).  A tone magnitude is in     *)
(* fiftieths (mag = M / 50); a Goertzel power is mag^2 / n with n = 8000   *)
(* samples, so a power is M^2 in units of 1 / (2500 * 8000) = 5e-8.        *)
(* The mean square of a window (np.mean(samples**2)) is in units of 1e-10, *)
(* the square of the rms unit 1e-5.  Every threshold of the source is      *)
(* written in the unit of the quantity it is compared with.                *)
(***************************************************************************)
EXTENDS Integers, Sequences, FiniteSets, TLC

\* ------------------------------------------------------------------ bounds
NumLetters == 6
MaxTime == 1500
MaxEmits == 2
MaxTicks == 6
StartTime == 1000
MaxCalls == 4
RingLen == 4
MaxWrites == 6

\* ------------------------------------------------------- CONFIG (lines 8-38)
SAMPLE_RATE == 8000
\* WINDOW_SECONDS = 1.0
WINDOW_SECONDS == 100
\* STEP_SECONDS = 0.2
STEP_SECONDS == 20
\* FULL_CODE_LOCKOUT = 4.0
FULL_CODE_LOCKOUT == 400
\* SILENCE_RMS_MAX = 0.00015, in units of 1e-5
SILENCE_RMS_MAX == 15
\* GOERTZEL_MIN_POWER = 0.00018 = 3600 * 5e-8
GOERTZEL_MIN_POWER == 3600
\* GOERTZEL_RATIO = 1.8, in tenths
GOERTZEL_RATIO == 18
\* PAIR_POWER_SUM = 0.003 = 60000 * 5e-8
PAIR_POWER_SUM == 60000
\* PAIR_POWER_MIN = 0.15 = 3000000 * 5e-8 (line 31 overrides line 27)
PAIR_POWER_MIN == 3000000
\* PAIR_GAP_MIN = 0.45
PAIR_GAP_MIN == 45
\* PAIR_GAP_MAX = 0.9
PAIR_GAP_MAX == 90
\* PAIR_IMBALANCE_MAX = 4.0
PAIR_IMBALANCE_MAX == 4
\* FLATNESS_MAX = 0.8, in tenths
FLATNESS_MAX == 8
\* the third-tone factor 0.85 of decode_selcal, in hundredths
THIRD_TONE_FACTOR == 85

\* Python's None, where a pair, a code or a time is expected
None == << >>

\* The SELCAL16 alphabet, in tone-table order (ascending frequency); the
\* model reads the first NumLetters entries of the table.
SELCAL16 ==
  <<"A", "B", "C", "D", "E", "F", "G", "H", "J", "K", "L", "M", "P", "Q", "R", "S">>

letters == SubSeq(SELCAL16, 1, NumLetters)

LetterIdx == 1..NumLetters

\* letters.index(l)
IndexOf(l) == CHOOSE i \in LetterIdx : letters[i] = l /\ \A j \in 1..(i - 1) : letters[j] # l

\* window_len = int(SAMPLE_RATE * WINDOW_SECONDS)
window_len == (SAMPLE_RATE * WINDOW_SECONDS) \div 100

Min2(a, b) == IF a <= b THEN a ELSE b

Max2(a, b) == IF a >= b THEN a ELSE b

\* ---------------------------------------------------------------- windows
(***************************************************************************)
(* A window of samples is represented by what the analyzer measures on it: *)
(* msq, np.mean(samples**2), and mags, the Goertzel magnitude at each of   *)
(* the tone frequencies in tone-table order.                               *)
(***************************************************************************)
Window(q, tones, floor) ==
  [msq |-> q,
   mags |-> [i \in LetterIdx |-> IF i \in DOMAIN tones THEN tones[i] ELSE floor]]

\* Exact comparison of products of naturals too large for machine integers:
\* a natural is a little-endian sequence of digits in base BigBase.
BigBase == 10 * 100

RECURSIVE BigOf(_)
BigOf(k) == IF k = 0 THEN << >> ELSE <<k % BigBase>> \o BigOf(k \div BigBase)

RECURSIVE BigMulCarry(_, _, _)
BigMulCarry(x, k, c) ==
  IF x = << >> THEN BigOf(c)
  ELSE LET t == Head(x) * k + c
       IN  <<t % BigBase>> \o BigMulCarry(Tail(x), k, t \div BigBase)

BigMul(x, k) == IF k = 0 THEN << >> ELSE BigMulCarry(x, k, 0)

RECURSIVE BigProduct(_, _)
BigProduct(ks, acc) ==
  IF ks = << >> THEN acc ELSE BigProduct(Tail(ks), BigMul(acc, Head(ks)))

RECURSIVE BigGreaterFrom(_, _, _)
BigGreaterFrom(x, y, i) ==
  IF i = 0 THEN FALSE
  ELSE IF x[i] # y[i] THEN x[i] > y[i]
  ELSE BigGreaterFrom(x, y, i - 1)

BigGreater(x, y) ==
  IF Len(x) # Len(y) THEN Len(x) > Len(y) ELSE BigGreaterFrom(x, y, Len(x))

\* ------------------------------------------------------------------- DSP
\* goertzel_mag(samples, f, fs): the magnitude of the window at letter i.
goertzel_mag(samples, i) == samples.mags[i]

\* goertzel_power(samples, f, fs) runs the same recursion as goertzel_mag
\* and returns (q1*q1 + q2*q2 - q1*q2*coeff) / n, the squared magnitude over n.
goertzel_power(samples, i) == samples.mags[i] * samples.mags[i]

\* min(p1, p2) < noise * GOERTZEL_RATIO with noise = np.mean(samples**2) + 1e-12.
\* In power units noise * GOERTZEL_RATIO is (GOERTZEL_RATIO * msq) / 5000 plus a
\* term (1.8e-12) below the resolution of the grid, which turns < into <= on
\* the grid.
BelowNoise(p, samples) == p <= (GOERTZEL_RATIO * samples.msq) \div 5000

\* confirm_dual_tone without the per-tone floor
confirm_dual_tone_no_floor(samples, f1, f2) ==
  LET p1 == goertzel_power(samples, f1)
      p2 == goertzel_power(samples, f2)
  IN  IF BelowNoise(Min2(p1, p2), samples) THEN FALSE
      ELSE IF (p1 + p2) < PAIR_POWER_SUM THEN FALSE
      ELSE TRUE

confirm_dual_tone(samples, f1, f2) ==
  LET p1 == goertzel_power(samples, f1)
      p2 == goertzel_power(samples, f2)
  IN  IF p1 < GOERTZEL_MIN_POWER \/ p2 < GOERTZEL_MIN_POWER THEN FALSE
      ELSE IF BelowNoise(Min2(p1, p2), samples) THEN FALSE
      ELSE IF (p1 + p2) < PAIR_POWER_SUM THEN FALSE
      ELSE TRUE

\* spectral_flatness(mags) > FLATNESS_MAX, where
\* spectral_flatness = exp(mean(log(mags + 1e-12))) / mean(mags + 1e-12):
\* the geometric mean over the arithmetic mean.  All magnitudes zero gives 1;
\* a zero among non-zero magnitudes gives a geometric mean of the order of
\* 1e-12 ^ (1/n); otherwise GM / AM > F / 10 iff prod(10 * n * m) > (F * sum) ^ n.
FlatnessAbove(mags, f) ==
  LET n == Len(mags)
      RECURSIVE Sum(_)
      Sum(i) == IF i = 0 THEN 0 ELSE mags[i] + Sum(i - 1)
      total == Sum(n)
  IN  IF total = 0 THEN f < 10
      ELSE IF \E i \in 1..n : mags[i] = 0 THEN FALSE
      ELSE BigGreater(BigProduct([i \in 1..n |-> 10 * n * mags[i]], <<1>>),
                      BigProduct([i \in 1..n |-> f * total], <<1>>))

\* sorted(zip(letters, mags), key=lambda x: x[1], reverse=True): a stable
\* sort, so equal magnitudes keep tone-table order.  Letter i comes before
\* letter j in the result:
Before(samples, i, j) ==
  \/ goertzel_mag(samples, i) > goertzel_mag(samples, j)
  \/ goertzel_mag(samples, i) = goertzel_mag(samples, j) /\ i < j

\* the first of the letters of S in sorted order
First(samples, S) == CHOOSE i \in S : \A j \in S \ {i} : Before(samples, i, j)

\* ranked[:3], the only places decode_selcal reads, as table indices
ranked(samples) ==
  LET r1 == First(samples, LetterIdx)
      r2 == First(samples, LetterIdx \ {r1})
      r3 == First(samples, LetterIdx \ {r1, r2})
  IN  <<r1, r2, r3>>

\* ------------------------------------------------------------ SELCAL PAIR
\* the pair in magnitude order, strongest letter first
canonical_by_magnitude(i1, i2) ==
  [pair |-> <<letters[i1], letters[i2]>>, f1 |-> i1, f2 |-> i2]

\* CANONICAL ORDER (frequency-based, not magnitude): i1, i2 are the table
\* indices of the strongest and the second strongest letter.
canonical(i1, i2) ==
  IF i1 < i2 THEN [pair |-> <<letters[i1], letters[i2]>>, f1 |-> i1, f2 |-> i2]
             ELSE [pair |-> <<letters[i2], letters[i1]>>, f1 |-> i2, f2 |-> i1]

\* the gate with the factor left out: ranked[2][1] > m2
third_tone_rivals_above(m2, m3) == m3 > m2

\* line 188: ranked[2][1] > m2 * 0.85
third_tone_rivals(m2, m3) == m3 * 100 > m2 * THIRD_TONE_FACTOR

decode_selcal(samples) ==
  LET r == ranked(samples)
      l1 == letters[r[1]]
      l2 == letters[r[2]]
      m2 == goertzel_mag(samples, r[2])
      m3 == goertzel_mag(samples, r[3])
      i1 == IndexOf(l1)
      i2 == IndexOf(l2)
      c == canonical(i1, i2)
      pair == c.pair
      f1 == c.f1
      f2 == c.f2
      p1 == goertzel_power(samples, f1)
      p2 == goertzel_power(samples, f2)
      lo == Min2(p1, p2)
      hi == Max2(p1, p2)
  IN  IF third_tone_rivals(m2, m3) THEN None
      ELSE IF l1 = l2 THEN None
      ELSE IF ~confirm_dual_tone(samples, f1, f2) THEN None
      ELSE IF (p1 + p2) < PAIR_POWER_MIN THEN None
      \* ratio = max(p1, p2) / max(min(p1, p2), 1e-6); 1e-6 is 20 power units
      ELSE IF hi > PAIR_IMBALANCE_MAX * Max2(lo, 20) THEN None
      ELSE IF FlatnessAbove(samples.mags, FLATNESS_MAX) THEN None
      ELSE pair

\* ------------------------------------------------- SELCAL Code Validation
\* is_valid_selcal with the duplicate checks left out
is_valid_selcal_length_only(code) == Len(code) = 4

is_valid_selcal(code) ==
  IF Len(code) # 4 THEN FALSE
  ELSE IF Cardinality({code[i] : i \in 1..Len(code)}) # 4 THEN FALSE
  ELSE IF code[1] = code[2] \/ code[3] = code[4] THEN FALSE
  ELSE TRUE

\* ---------------------------------------------------------------- LOGGING
\* The log file: whether it exists, and its text, the sequence of its
\* newline-terminated lines, first line first.
NL == "\n"

NoFile == [exists |-> FALSE, text |-> << >>]

File(text) == [exists |-> TRUE, text |-> text]

\* what open(LOG_FILE, "r").read() gives, "" on FileNotFoundError
ReadOld(file) == IF file.exists THEN file.text ELSE << >>

\* the new line written after the old contents
log_selcal_append(file, line) == File(ReadOld(file) \o <<line \o <<NL>>>>)

\* log_selcal(line) when no I/O call fails
log_selcal(file, line) == File(<<line \o <<NL>>>> \o ReadOld(file))

\* selcal_dict.get(code, ""): the registry knows one code here
selcal_dict == [c \in {<<"A", "B", "C", "D">>} |-> "(ZK-OKA B789 ANZ)"]

\* ts = datetime.now().strftime("%d/%m/%y %H:%M:%S"): the wall clock to the second
strftime(now) == now \div 100

\* line = f"{ts} {code} {desc}"
FormatLine(now, code) ==
  <<strftime(now), code, IF code \in DOMAIN selcal_dict THEN selcal_dict[code] ELSE "">>

\* ------------------------------------------------------------ Pair Tracker
\* update with only the lower bound of the gap enforced
update_no_max(fp, ft, pair, now) ==
  IF fp = None THEN [first_pair |-> pair, first_time |-> now, ret |-> None]
  ELSE IF pair = fp THEN [first_pair |-> fp, first_time |-> ft, ret |-> None]
  ELSE IF ~(PAIR_GAP_MIN <= now - ft)
       THEN [first_pair |-> None, first_time |-> None, ret |-> None]
       ELSE [first_pair |-> None, first_time |-> None, ret |-> fp \o pair]

\* update that stores nothing when called in IDLE
update_idle_drops(fp, ft, pair, now) ==
  IF fp = None THEN [first_pair |-> None, first_time |-> None, ret |-> None]
  ELSE IF pair = fp THEN [first_pair |-> fp, first_time |-> ft, ret |-> None]
  ELSE IF ~(PAIR_GAP_MIN <= now - ft /\ now - ft <= PAIR_GAP_MAX)
       THEN [first_pair |-> None, first_time |-> None, ret |-> None]
       ELSE [first_pair |-> None, first_time |-> None, ret |-> fp \o pair]

\* update that restarts the gap when the stored pair is decoded again
update_advances_time(fp, ft, pair, now) ==
  IF fp = None THEN [first_pair |-> pair, first_time |-> now, ret |-> None]
  ELSE IF pair = fp THEN [first_pair |-> fp, first_time |-> now, ret |-> None]
  ELSE IF ~(PAIR_GAP_MIN <= now - ft /\ now - ft <= PAIR_GAP_MAX)
       THEN [first_pair |-> None, first_time |-> None, ret |-> None]
       ELSE [first_pair |-> None, first_time |-> None, ret |-> fp \o pair]

\* update that keeps a pair rejected on timing as the new first pair
update_keeps_offender(fp, ft, pair, now) ==
  IF fp = None THEN [first_pair |-> pair, first_time |-> now, ret |-> None]
  ELSE IF pair = fp THEN [first_pair |-> fp, first_time |-> ft, ret |-> None]
  ELSE IF ~(PAIR_GAP_MIN <= now - ft /\ now - ft <= PAIR_GAP_MAX)
       THEN [first_pair |-> pair, first_time |-> now, ret |-> None]
       ELSE [first_pair |-> None, first_time |-> None, ret |-> fp \o pair]

\* update with both bounds of the gap exclusive
update_exclusive(fp, ft, pair, now) ==
  IF fp = None THEN [first_pair |-> pair, first_time |-> now, ret |-> None]
  ELSE IF pair = fp THEN [first_pair |-> fp, first_time |-> ft, ret |-> None]
  ELSE IF ~(PAIR_GAP_MIN < now - ft /\ now - ft < PAIR_GAP_MAX)
       THEN [first_pair |-> None, first_time |-> None, ret |-> None]
       ELSE [first_pair |-> None, first_time |-> None, ret |-> fp \o pair]

\* PairTracker.update(pair, now) on the tracker (fp, ft) = (first_pair,
\* first_time): the fields after the call and the value returned.
\* current_pair and start_time are only ever set to None and never read.
update(fp, ft, pair, now) ==
  IF fp = None THEN [first_pair |-> pair, first_time |-> now, ret |-> None]
  ELSE IF pair = fp THEN [first_pair |-> fp, first_time |-> ft, ret |-> None]
  ELSE LET gap == now - ft
       IN  IF ~(PAIR_GAP_MIN <= gap /\ gap <= PAIR_GAP_MAX)
           THEN [first_pair |-> None, first_time |-> None, ret |-> None]
           ELSE [first_pair |-> None, first_time |-> None, ret |-> fp \o pair]

\* ------------------------------------------------------------ ring buffer
(***************************************************************************)
(* buffer = np.zeros(window_len) and write_pos, shared by the capture      *)
(* callback (its own thread) and the analyzer.  The model runs the ring at *)
(* a capacity of RingLen samples; the sample of the n-th write is the      *)
(* number n, and the zeros of np.zeros are the number 0.                   *)
(***************************************************************************)
RingIdx == 0..(RingLen - 1)

\* a slot np.zeros filled and no write has reached
Unwritten == 0

\* the store with the index one ahead
store_index_ahead(write_pos) == (write_pos + 1) % RingLen

\* line 245: buffer[write_pos % window_len] = s
store_index(write_pos) == write_pos % RingLen

\* the shift without the sign
roll_shift_unsigned(write_pos) == write_pos % RingLen

\* line 261: -write_pos % window_len, which Python reads as (-write_pos) % window_len
roll_shift(write_pos) == (RingLen - (write_pos % RingLen)) % RingLen

\* np.roll(a, shift) on a flat array: result = empty_like(a), then
\* result[shift:] = a[:-shift] and result[:shift] = a[-shift:] (one copy of
\* the whole array when shift is 0).  The k-th element copied, k in
\* 1..RingLen, as <<index in result, index in a>>.
roll_copy(shift, k) ==
  IF k <= RingLen - shift THEN <<shift + k - 1, k - 1>>
  ELSE <<k - 1 - (RingLen - shift), k - 1>>

RingInit ==
  [buffer |-> [i \in RingIdx |-> Unwritten],
   write_pos |-> 0,
   storing |-> FALSE,          \* the callback is between lines 245 and 246
   snap |-> "idle",            \* "idle", "copying" or "done"
   at |-> 0,                   \* write_pos as line 261 read it
   shift |-> 0,
   copied |-> 0,               \* elements of the result copied so far
   result |-> [i \in RingIdx |-> Unwritten],
   late |-> 0]                 \* history: stores not counted in at

\* ------------------------------------------------------------ LIVE LISTEN
VARIABLES
  pc,              \* "listening", "stopped" (KeyboardInterrupt) or "crashed" (an uncaught exception)
  clock,           \* time.time() as of the last tick
  first_pair,      \* pair_tracker.first_pair
  first_time,      \* pair_tracker.first_time
  last_full_code,
  last_full_time,
  samples,         \* the window of the last tick
  pair,            \* what decode_selcal returned in the last tick, None if not reached
  code,            \* what pair_tracker.update returned in the last tick, None if not reached
  outcome,         \* where the last iteration of the loop ended
  stdout,          \* the lines printed
  logfile,         \* LOG_FILE
  emit_at,         \* history: the tick time of each printed line
  ticks,           \* history: the number of iterations so far
  before,          \* history: <<first_pair, first_time>> as the last call of update found them
  ring,            \* buffer and write_pos, the callback's position and the snapshot being taken
  audio            \* the input: "live", or the bursts of a synthesized stream

vars ==
  <<pc, clock, first_pair, first_time, last_full_code, last_full_time, samples,
    pair, code, outcome, stdout, logfile, emit_at, ticks, before, ring, audio>>

\* the gate with the square root left out: np.mean(samples**2) < SILENCE_RMS_MAX
Silent_no_sqrt(w) == w.msq < SILENCE_RMS_MAX

\* rms = np.sqrt(np.mean(samples**2)); rms < SILENCE_RMS_MAX
Silent(w) == w.msq < SILENCE_RMS_MAX * SILENCE_RMS_MAX

\* the lockout measured against PAIR_GAP_MAX instead of FULL_CODE_LOCKOUT
LockoutPasses_short(c, now, lfc, lft) == c # lfc \/ (now - lft) >= PAIR_GAP_MAX

\* the lockout with "and" for "or"
LockoutPasses_and(c, now, lfc, lft) == c # lfc /\ (now - lft) >= FULL_CODE_LOCKOUT

\* code != last_full_code or (now - last_full_time) >= FULL_CODE_LOCKOUT
LockoutPasses(c, now, lfc, lft) == c # lfc \/ (now - lft) >= FULL_CODE_LOCKOUT

\* The outcomes of the I/O calls of log_selcal: all succeed; open(.., "r")
\* raises something other than FileNotFoundError; open(.., "w") raises; a
\* write raises after open(.., "w") has truncated the file.
IoOutcomes == {"ok", "read_error", "open_error", "write_error"}

\* lines 288-296: print(line), log_selcal(line), then the two assignments.
\* An exception of log_selcal is caught nowhere (line 300 catches only
\* KeyboardInterrupt): it ends listen_live before the assignments.
Emit(now, c) ==
  LET line == FormatLine(now, c)
  IN  \E io \in IoOutcomes :
      /\ stdout' = Append(stdout, line)
      /\ emit_at' = Append(emit_at, now)
      /\ IF io = "ok"
         THEN /\ logfile' = log_selcal(logfile, line)
              /\ last_full_code' = c
              /\ last_full_time' = now
              /\ outcome' = "emitted"
              /\ pc' = pc
         ELSE /\ logfile' \in (CASE io = "read_error" -> {logfile}
                                 [] io = "open_error" -> {logfile}
                                 [] OTHER -> {File(<< >>), File(<<line \o <<NL>>>>)})
              /\ UNCHANGED <<last_full_code, last_full_time>>
              /\ outcome' = "log_error"
              /\ pc' = "crashed"

\* a skipped tick after which a tracker that has waited longer than
\* PAIR_GAP_MAX is reset
Skipped_ages_out(o, now) ==
  /\ outcome' = o
  /\ IF first_pair # None /\ now - first_time > PAIR_GAP_MAX
     THEN first_pair' = None /\ first_time' = None
     ELSE UNCHANGED <<first_pair, first_time>>
  /\ UNCHANGED <<pc, last_full_code, last_full_time, stdout, logfile, emit_at, before>>

\* the continue of lines 267 and 272: the tick ends before update is called
Skipped(o, now) ==
  /\ outcome' = o
  /\ UNCHANGED <<pc, first_pair, first_time, last_full_code, last_full_time,
                 stdout, logfile, emit_at, before>>

\* a tick without an emission that restarts the lockout
Continue_restarts_lockout(o, now) ==
  /\ outcome' = o
  /\ last_full_time' = now
  /\ UNCHANGED <<pc, last_full_code, stdout, logfile, emit_at>>

\* the continue of lines 277 and 281 and the lockout test failing (284-287):
\* the tick ends after update with no emission
Continue(o, now) ==
  /\ outcome' = o
  /\ UNCHANGED <<pc, last_full_code, last_full_time, stdout, logfile, emit_at>>

\* One iteration of the inner loop (lines 259-296) on window w at time now.
Iteration(w, now) ==
  /\ clock' = now
  /\ ring' = ring
  /\ ticks' = ticks + 1
  /\ samples' = w
  /\ IF Silent(w)
     THEN /\ pair' = None /\ code' = None
          /\ Skipped("silence", now)
     ELSE \E p \in {decode_selcal(w)} :
              /\ pair' = p
              /\ IF p = None
                 THEN /\ code' = None
                      /\ Skipped("no_pair", now)
                 ELSE \E u \in {update(first_pair, first_time, p, now)} :
                          /\ before' = <<first_pair, first_time>>
                          /\ first_pair' = u.first_pair
                          /\ first_time' = u.first_time
                          /\ code' = u.ret
                          /\ IF u.ret = None
                             THEN Continue("no_code", now)
                             ELSE IF ~is_valid_selcal(u.ret)
                             THEN Continue("invalid", now)
                             ELSE IF ~LockoutPasses(u.ret, now, last_full_code, last_full_time)
                             THEN Continue("locked_out", now)
                             ELSE Emit(now, u.ret)

\* The windows a live tick may read: every combination of a mean square
\* (below the silence gate, on it, a two-tone level) with a tone content.
LiveTones ==
  { (1 :> 2000) @@ (2 :> 2000),
    (3 :> 2000) @@ (4 :> 1500),
    (1 :> 2000) @@ (3 :> 2000),
    (1 :> 2000) @@ (2 :> 2000) @@ (3 :> 2000) }

LiveWindows ==
  { Window(q, t, 0) : q \in {1000000}, t \in LiveTones }
    \cup { Window(224, (1 :> 2000) @@ (2 :> 2000), 0) }

\* time.sleep(STEP_SECONDS) returns after at least STEP_SECONDS; the rest of
\* the iteration and the scheduler add to the period.
Jitters == {0, 25, 290}

Init ==
  /\ pc = "listening"
  /\ clock = StartTime
  /\ first_pair = None
  /\ first_time = None
  /\ last_full_code = None
  /\ last_full_time = 0
  /\ samples = Window(0, << >>, 0)
  /\ pair = None
  /\ code = None
  /\ outcome = "start"
  /\ stdout = << >>
  /\ emit_at = << >>
  /\ ticks = 0
  /\ before = <<None, None>>
  /\ ring = RingInit
  /\ logfile \in {NoFile, File(<<FormatLine(0, <<"C", "D", "A", "B">>) \o <<NL>>>>)}
  /\ audio = "live"

Tick ==
  /\ pc = "listening"
  /\ Len(stdout) < MaxEmits
  /\ ticks < MaxTicks
  /\ \E w \in LiveWindows, j \in Jitters :
       /\ clock + STEP_SECONDS + j <= MaxTime
       /\ Iteration(w, clock + STEP_SECONDS + j)
  /\ UNCHANGED audio

\* Ctrl-C: lines 300-301
Interrupt ==
  /\ pc = "listening"
  /\ pc' = "stopped"
  /\ UNCHANGED <<clock, first_pair, first_time, last_full_code, last_full_time,
                 samples, pair, code, outcome, stdout, logfile, emit_at, ticks, before,
                 ring, audio>>

Next == Tick \/ Interrupt

Spec == Init /\ [][Next]_vars

\* ------------------------------------------------------ synthesized audio
(***************************************************************************)
(* A synthesized stream is a sequence of bursts, each sounding two tones   *)
(* of equal amplitude from time from to time to; between bursts the input  *)
(* is silent.  The ring buffer holds the last WINDOW_SECONDS of input, so  *)
(* the window of a tick at time t holds of each burst the part inside      *)
(* (t - WINDOW_SECONDS, t].  A tone of amplitude A filling a fraction x of *)
(* the window has Goertzel magnitude x * A * n / 2 and adds x * A^2 / 2 to *)
(* the mean square: with gain g = 2000 * A, a burst overlapping the window *)
(* by ov centiseconds gives each of its tones magnitude g * ov and adds    *)
(* 25 * g^2 * ov to the mean square.                                       *)
(***************************************************************************)
BURST_SECONDS == 60

SILENCE_SECONDS == 70

Overlap(b, t) == Max2(0, Min2(b.to, t) - Max2(b.from, t - WINDOW_SECONDS))

RECURSIVE SumOver(_, _, _)
SumOver(bursts, t, i) ==
  IF bursts = << >> THEN 0
  ELSE LET b == Head(bursts)
           here == IF i = 0 THEN 25 * b.gain * b.gain * Overlap(b, t)
                   ELSE IF i \in b.tones THEN b.gain * Overlap(b, t)
                   ELSE 0
       IN  here + SumOver(Tail(bursts), t, i)

\* np.roll(buffer, -write_pos % window_len) at time t
StreamWindow(a, t) ==
  [msq |-> SumOver(a.bursts, t, 0),
   mags |-> [i \in LetterIdx |-> SumOver(a.bursts, t, i)]]

\* The two bursts of code c = P1 P2 P3 P4 played from time t0 at gain g
TwoBursts(c, t0, g) ==
  << [from |-> t0, to |-> t0 + BURST_SECONDS,
      tones |-> {IndexOf(c[1]), IndexOf(c[2])}, gain |-> g],
     [from |-> t0 + BURST_SECONDS + SILENCE_SECONDS,
      to |-> t0 + 2 * BURST_SECONDS + SILENCE_SECONDS,
      tones |-> {IndexOf(c[3]), IndexOf(c[4])}, gain |-> g] >>

StreamLength == 2 * BURST_SECONDS + SILENCE_SECONDS

Letter == {letters[i] : i \in LetterIdx}

\* the four-letter strings is_valid_selcal accepts
ValidCodes ==
  {c \in [1..4 -> Letter] : Cardinality({c[i] : i \in 1..4}) = 4}

\* gains of amplitude 0.0015 (rms 10 * SILENCE_RMS_MAX), 0.02 and 0.05
Gains == {3, 40, 100}

\* the stream starts up to one tick period before the first tick
Phases == {0, 5, 10, 15}

\* the pause between the end of the stream and its repetition
RepeatPauses == {0, 100, 300, 500}

SingleStreams ==
  { [code |-> c, plays |-> 1, pause |-> 0,
     bursts |-> TwoBursts(c, StartTime + ph, g),
     finish |-> StartTime + ph + StreamLength + WINDOW_SECONDS + STEP_SECONDS]
    : c \in ValidCodes, g \in Gains, ph \in Phases }

RepeatedStreams ==
  { [code |-> c, plays |-> 2, pause |-> rp,
     bursts |-> TwoBursts(c, StartTime + ph, g)
                  \o TwoBursts(c, StartTime + ph + StreamLength + rp, g),
     finish |-> StartTime + ph + 2 * StreamLength + rp + WINDOW_SECONDS + STEP_SECONDS]
    : c \in {c \in ValidCodes : c[1] = letters[1]}, g \in {100}, ph \in {0, 10},
      rp \in RepeatPauses }

InitAudio(streams) ==
  /\ pc = "listening"
  /\ clock = StartTime
  /\ first_pair = None
  /\ first_time = None
  /\ last_full_code = None
  /\ last_full_time = 0
  /\ samples = Window(0, << >>, 0)
  /\ pair = None
  /\ code = None
  /\ outcome = "start"
  /\ stdout = << >>
  /\ emit_at = << >>
  /\ ticks = 0
  /\ before = <<None, None>>
  /\ ring = RingInit
  /\ logfile = NoFile
  /\ audio \in streams

\* The analyzer ticks every STEP_SECONDS over the stream, until the window
\* has been silent for a whole period.
TickStream ==
  /\ pc = "listening"
  /\ clock + STEP_SECONDS <= audio.finish
  /\ Iteration(StreamWindow(audio, clock + STEP_SECONDS), clock + STEP_SECONDS)
  /\ UNCHANGED audio

StreamDone == pc = "listening" /\ clock + STEP_SECONDS > audio.finish

InitStream == InitAudio(SingleStreams)

SpecStream == InitStream /\ [][TickStream]_vars

InitRepeat == InitAudio(RepeatedStreams)

SpecRepeat == InitRepeat /\ [][TickStream]_vars

\* the codes printed so far
PrintedCodes == [i \in 1..Len(stdout) |-> stdout[i][2]]

\* ------------------------------------------------------------- one window
\* decode_selcal applied to one window: up to three tones at the levels of
\* MagLevels over a floor at every other tone frequency.
MagLevels == {0, 59, 60, 1000, 1700, 2000}

DecodeWindows ==
  { Window(q, t, f) :
      q \in {225, 600000, 1000000},
      t \in UNION { [S -> MagLevels] : S \in {S \in SUBSET LetterIdx : Cardinality(S) = 3} },
      f \in {0, 1} }

InitDecode ==
  /\ pc = "listening"
  /\ clock = StartTime
  /\ first_pair = None
  /\ first_time = None
  /\ last_full_code = None
  /\ last_full_time = 0
  /\ samples \in DecodeWindows
  /\ pair = None
  /\ code = None
  /\ outcome = "start"
  /\ stdout = << >>
  /\ emit_at = << >>
  /\ ticks = 0
  /\ before = <<None, None>>
  /\ ring = RingInit
  /\ logfile = NoFile
  /\ audio = "live"

\* line 270: pair = decode_selcal(samples, letters, freqs)
Decode ==
  /\ outcome = "start"
  /\ pair' = decode_selcal(samples)
  /\ outcome' = "decoded"
  /\ UNCHANGED <<pc, clock, first_pair, first_time, last_full_code, last_full_time,
                 samples, code, stdout, logfile, emit_at, ticks, before, ring, audio>>

SpecDecode == InitDecode /\ [][Decode]_vars

\* ------------------------------------------------------------ the tracker
\* PairTracker.update called on its own, as line 275 calls it: with a pair
\* decode_selcal can return and the time of the tick.
CanonicalPairs ==
  { <<letters[i], letters[j]>> : i \in LetterIdx, j \in LetterIdx } \ { <<l, l>> : l \in Letter }

TrackerPairs == { p \in CanonicalPairs : IndexOf(p[1]) < IndexOf(p[2]) }

\* the time from one call to the next: around both bounds of the gap
TrackerGaps ==
  {1, PAIR_GAP_MIN - 1, PAIR_GAP_MIN, PAIR_GAP_MAX, PAIR_GAP_MAX + 1}

\* pair_tracker = PairTracker(): reset() leaves every field None
InitTracker ==
  /\ pc = "listening"
  /\ clock = StartTime
  /\ first_pair = None
  /\ first_time = None
  /\ last_full_code = None
  /\ last_full_time = 0
  /\ samples = Window(0, << >>, 0)
  /\ pair = None
  /\ code = None
  /\ outcome = "start"
  /\ stdout = << >>
  /\ emit_at = << >>
  /\ ticks = 0
  /\ before = <<None, None>>
  /\ ring = RingInit
  /\ logfile = NoFile
  /\ audio = "live"

\* line 275: code = pair_tracker.update(pair, now)
Track ==
  /\ pc = "listening"
  /\ ticks < MaxCalls
  /\ \E p \in TrackerPairs, d \in TrackerGaps :
       /\ clock + d <= MaxTime
       /\ \E u \in {update(first_pair, first_time, p, clock + d)} :
            /\ clock' = clock + d
            /\ pair' = p
            /\ before' = <<first_pair, first_time>>
            /\ first_pair' = u.first_pair
            /\ first_time' = u.first_time
            /\ code' = u.ret
  /\ ticks' = ticks + 1
  /\ outcome' = "updated"
  /\ UNCHANGED <<pc, last_full_code, last_full_time, samples, stdout, logfile,
                 emit_at, ring, audio>>

SpecTracker == InitTracker /\ [][Track]_vars

\* ---------------------------------------------------- callback and snapshot
\* every variable but ring
loop_vars ==
  <<pc, clock, first_pair, first_time, last_full_code, last_full_time, samples,
    pair, code, outcome, stdout, logfile, emit_at, ticks, before, audio>>

\* line 245: the callback stores the next sample, the MaxWrites-th at most
CallbackStore ==
  /\ ~ring.storing
  /\ ring.write_pos < MaxWrites
  /\ ring' = [ring EXCEPT !.buffer[store_index(ring.write_pos)] = ring.write_pos + 1,
                          !.storing = TRUE,
                          !.late = IF ring.snap = "copying" THEN @ + 1 ELSE @]
  /\ UNCHANGED loop_vars

\* line 246: write_pos += 1
CallbackAdvance ==
  /\ ring.storing
  /\ ring' = [ring EXCEPT !.write_pos = @ + 1, !.storing = FALSE]
  /\ UNCHANGED loop_vars

\* line 261: the argument -write_pos % window_len is evaluated, then np.roll
\* is called; result is what empty_like returns, every element of it
\* overwritten before the snapshot is read.
SnapshotRead ==
  /\ ring.snap # "copying"
  /\ ring' = [ring EXCEPT !.snap = "copying",
                          !.at = ring.write_pos,
                          !.shift = roll_shift(ring.write_pos),
                          !.copied = 0,
                          !.late = IF ring.storing THEN 1 ELSE 0]
  /\ UNCHANGED loop_vars

\* np.roll copies the next element; the callback's thread may run between
\* any two elements.
SnapshotCopy ==
  /\ ring.snap = "copying"
  /\ \E c \in {roll_copy(ring.shift, ring.copied + 1)} :
       ring' = [ring EXCEPT !.result[c[1]] = ring.buffer[c[2]],
                            !.copied = @ + 1,
                            !.snap = IF ring.copied + 1 = RingLen THEN "done" ELSE "copying"]
  /\ UNCHANGED loop_vars

InitRing == InitTracker

NextRing == CallbackStore \/ CallbackAdvance \/ SnapshotRead \/ SnapshotCopy

SpecRing == InitRing /\ [][NextRing]_vars

\* ================================================================= claims
\* the lines of the log file
LoggedLines == {logfile.text[i] : i \in 1..Len(logfile.text)}

FourDistinctLetters(c) ==
  /\ Len(c) = 4
  /\ \A i \in 1..4 : c[i] \in Letter
  /\ \A i, j \in 1..4 : i # j => c[i] # c[j]

\* C1: every code that is printed, and every code in a line of the log, has
\* length 4 and four pairwise distinct letters.
C1_EmittedCodesValid ==
  /\ \A i \in 1..Len(stdout) : FourDistinctLetters(stdout[i][2])
  /\ \A l \in LoggedLines : FourDistinctLetters(l[2])

\* C1 witness: a second code has just been printed and written at the head
\* of the log.
C1_Witness ==
  /\ outcome = "emitted"
  /\ Len(stdout) = 2
  /\ Len(logfile.text) >= 2 /\ logfile.text[1][2] = stdout[Len(stdout)][2]

\* C2: two consecutive emissions of the same code are at least
\* FULL_CODE_LOCKOUT apart in tick time.
C2_SameCodeLockout ==
  \A i \in 1..(Len(stdout) - 1) :
    stdout[i][2] = stdout[i + 1][2] => emit_at[i + 1] - emit_at[i] >= FULL_CODE_LOCKOUT

\* C2 witness: the same code emitted twice in a row, exactly FULL_CODE_LOCKOUT apart.
C2_Witness ==
  /\ Len(stdout) = 2
  /\ stdout[1][2] = stdout[2][2]
  /\ emit_at[2] - emit_at[1] = FULL_CODE_LOCKOUT

\* C2, second half: two different codes emitted in a row less than
\* FULL_CODE_LOCKOUT apart is a reachable state.
C2_DifferentCodesSoon ==
  /\ Len(stdout) = 2
  /\ stdout[1][2] # stdout[2][2]
  /\ emit_at[2] - emit_at[1] < FULL_CODE_LOCKOUT

\* the step is one iteration of the loop
Ticked == ticks' = ticks + 1

\* the position of a letter in the tone table
TableIndex(l) == CHOOSE i \in 1..Len(SELCAL16) : SELCAL16[i] = l

\* both pairs of the code are in tone-table order
InTableOrder(c) ==
  TableIndex(c[1]) < TableIndex(c[2]) /\ TableIndex(c[3]) < TableIndex(c[4])

\* C3: over the two-burst stream of a valid code C the run ends with exactly
\* one emission, of C (stated for codes whose pairs are in table order,
\* played at the loudest amplitude).
C3_StreamEmitsCodeOnce ==
  (StreamDone /\ InTableOrder(audio.code) /\ audio.bursts[1].gain = 100)
    => PrintedCodes = <<audio.code>>

\* C4: the stream of C played twice ends with one emission when the
\* repetition follows immediately, and with two emissions, both of C, when
\* the repetition starts FULL_CODE_LOCKOUT or more after the first play.
C4_RepeatedStream ==
  (StreamDone /\ InTableOrder(audio.code))
    => /\ audio.pause = 0 => Len(stdout) = 1
       /\ audio.pause >= FULL_CODE_LOCKOUT => PrintedCodes = <<audio.code, audio.code>>

\* C5: a failed log write does not halt detection.
C5_LogErrorDoesNotHalt == outcome = "log_error" => pc = "listening"

\* C6 as claimed: the pair left in the tracker by the last burst of the first
\* play is never combined with the first pair of the repetition into an
\* emitted code.
C6_StalePairNeverCombined ==
  \A i \in 1..Len(stdout) :
    LET c == stdout[i][2]
    IN  ~({c[1], c[2]} = {audio.code[3], audio.code[4]}
          /\ {c[3], c[4]} = {audio.code[1], audio.code[2]})

\* C6 as amended: a pair decoded more than PAIR_GAP_MAX after the stored
\* first_time is ignored when it equals first_pair and otherwise resets the
\* tracker to IDLE, in both cases with no emission; and a pair decoded while
\* the tracker is IDLE is stored as first_pair with first_time = now.
C6_StalePairIgnoredOrReset ==
  [][ Ticked =>
        /\ (first_pair # None /\ pair' # None /\ clock' - first_time > PAIR_GAP_MAX)
             => /\ stdout' = stdout
                /\ code' = None
                /\ IF pair' = first_pair
                   THEN first_pair' = first_pair /\ first_time' = first_time
                   ELSE first_pair' = None
        /\ (first_pair = None /\ pair' # None)
             => first_pair' = pair' /\ first_time' = clock' ]_vars

\* C6 witness: the first pair of the repetition has reset a tracker that
\* held the pair of the last burst of the first play.
C6_Witness ==
  /\ outcome = "no_code"
  /\ first_pair = None
  /\ pair # None
  /\ {pair[1], pair[2]} = {audio.code[1], audio.code[2]}
  /\ clock > audio.bursts[3].from

\* C7: a tick whose window rms is below SILENCE_RMS_MAX prints nothing and
\* leaves the log file alone.
C7_SilentTickNeverEmits ==
  [][ (Ticked /\ samples'.msq < SILENCE_RMS_MAX * SILENCE_RMS_MAX)
        => (stdout' = stdout /\ logfile' = logfile) ]_vars

\* C7 witness: a tick was skipped by the silence gate on a window whose pair
\* would have completed a valid code within the gap bounds.
C7_Witness ==
  /\ outcome = "silence"
  /\ first_pair = <<"C", "D">>
  /\ clock - first_time >= PAIR_GAP_MIN
  /\ clock - first_time <= PAIR_GAP_MAX
  /\ decode_selcal(samples) = <<"A", "B">>

\* C8: a tick that produced a code of four distinct letters prints it iff it
\* differs from last_full_code or now - last_full_time >= FULL_CODE_LOCKOUT;
\* with no last code it is printed; and when the emission completes,
\* last_full_code and last_full_time are the code and now.
C8_EmitIffLockoutPasses ==
  [][ (Ticked /\ code' # None /\ FourDistinctLetters(code'))
        => /\ (stdout' # stdout) <=>
                (code' # last_full_code \/ clock' - last_full_time >= FULL_CODE_LOCKOUT)
           /\ stdout' # stdout =>
                /\ Len(stdout') = Len(stdout) + 1
                /\ stdout'[Len(stdout')][2] = code'
           /\ last_full_code = None => stdout' # stdout
           /\ outcome' = "emitted" =>
                (last_full_code' = code' /\ last_full_time' = clock') ]_vars

\* C8 witness: a valid code equal to the last one was suppressed less than
\* FULL_CODE_LOCKOUT after it.
C8_Witness ==
  /\ outcome = "locked_out"
  /\ code = last_full_code
  /\ clock - last_full_time < FULL_CODE_LOCKOUT

\* C9: while no log write has failed the log file starts with the printed
\* lines, newest first; and each completed emission makes the file its line
\* followed by the previous contents (nothing when the file did not exist).
C9_LogNewestFirst ==
  /\ [](pc # "crashed" =>
          /\ stdout # << >> => logfile.exists
          /\ Len(logfile.text) >= Len(stdout)
          /\ \A i \in 1..Len(stdout) :
               logfile.text[Len(stdout) - i + 1] = stdout[i] \o <<NL>>)
  /\ [][ (Ticked /\ outcome' = "emitted")
           => /\ logfile'.exists
              /\ logfile'.text = <<stdout'[Len(stdout')] \o <<NL>>>>
                                  \o (IF logfile.exists THEN logfile.text ELSE << >>) ]_vars

\* C9 witness: two emissions into a file that held one line before.
C9_Witness ==
  /\ outcome = "emitted"
  /\ Len(stdout) = 2
  /\ Len(logfile.text) = 3
  /\ logfile.text[1] = stdout[2] \o <<NL>>
  /\ logfile.text[2] = stdout[1] \o <<NL>>

\* C10: a pair returned by decode_selcal has two different letters, the
\* first before the second in the tone table.
C10_PairCanonical ==
  (outcome = "decoded" /\ pair # None)
    => (pair[1] # pair[2] /\ TableIndex(pair[1]) < TableIndex(pair[2]))

\* C10 witness: a pair was returned whose second letter had the larger magnitude.
C10_Witness ==
  /\ outcome = "decoded"
  /\ pair # None
  /\ samples.mags[TableIndex(pair[2])] > samples.mags[TableIndex(pair[1])]

\* the step is one call of update in the tracker specification
Tracked == ticks' = ticks + 1 /\ outcome' = "updated"

\* C11: update called in IDLE (first_pair is None) stores the pair and the
\* time, which leaves the tracker in AWAITING_SECOND, and returns no code.
C11_IdleStoresPair ==
  [][ (Tracked /\ first_pair = None)
        => /\ first_pair' = pair'
           /\ first_pair' # None
           /\ first_time' = clock'
           /\ code' = None ]_vars

\* C11 witness: update was called in IDLE, after an earlier call had reset
\* the tracker, and stored its pair and time.
C11_Witness ==
  /\ outcome = "updated"
  /\ ticks > 1
  /\ before = <<None, None>>
  /\ first_pair = pair
  /\ first_time = clock
  /\ code = None

\* C12: update called in AWAITING_SECOND with the stored first_pair returns
\* no code and leaves first_pair and first_time as they were, whatever the
\* time since first_time.
C12_SamePairIgnored ==
  [][ (Tracked /\ first_pair # None /\ pair' = first_pair)
        => /\ code' = None
           /\ first_pair' = first_pair
           /\ first_time' = first_time ]_vars

\* C12 witness: the stored pair came again more than PAIR_GAP_MAX after
\* first_time and the tracker is as it was.
C12_Witness ==
  /\ outcome = "updated"
  /\ before[1] = pair
  /\ clock - before[2] > PAIR_GAP_MAX
  /\ first_pair = pair
  /\ first_time = before[2]
  /\ code = None

\* C13: update called in AWAITING_SECOND with a different pair and a gap
\* below PAIR_GAP_MIN or above PAIR_GAP_MAX returns no code and leaves the
\* tracker IDLE, the rejected pair not stored.
C13_BadGapResets ==
  [][ (Tracked /\ first_pair # None /\ pair' # first_pair
         /\ (clock' - first_time < PAIR_GAP_MIN \/ clock' - first_time > PAIR_GAP_MAX))
        => /\ code' = None
           /\ first_pair' = None
           /\ first_time' = None ]_vars

\* C13 witness: a different pair came just over PAIR_GAP_MAX after
\* first_time and the tracker was reset.
C13_Witness ==
  /\ outcome = "updated"
  /\ before[1] # None
  /\ before[1] # pair
  /\ clock - before[2] = PAIR_GAP_MAX + 1
  /\ first_pair = None
  /\ code = None

\* the same just under PAIR_GAP_MIN
C13_JustUnderMin ==
  /\ outcome = "updated"
  /\ before[1] # None
  /\ before[1] # pair
  /\ clock - before[2] = PAIR_GAP_MIN - 1
  /\ first_pair = None
  /\ code = None

\* C14: update called in AWAITING_SECOND with a different pair and
\* PAIR_GAP_MIN <= gap <= PAIR_GAP_MAX returns first_pair followed by the
\* pair and leaves the tracker IDLE.
C14_GoodGapJoins ==
  [][ (Tracked /\ first_pair # None /\ pair' # first_pair
         /\ PAIR_GAP_MIN <= clock' - first_time /\ clock' - first_time <= PAIR_GAP_MAX)
        => /\ code' = first_pair \o pair'
           /\ Len(code') = 4
           /\ first_pair' = None
           /\ first_time' = None ]_vars

\* C14 witness: a code was returned at a gap of exactly PAIR_GAP_MIN.
C14_Witness ==
  /\ outcome = "updated"
  /\ before[1] # None
  /\ clock - before[2] = PAIR_GAP_MIN
  /\ code = before[1] \o pair
  /\ first_pair = None

\* the same at a gap of exactly PAIR_GAP_MAX
C14_AtMax ==
  /\ outcome = "updated"
  /\ before[1] # None
  /\ clock - before[2] = PAIR_GAP_MAX
  /\ code = before[1] \o pair
  /\ first_pair = None

\* the sample of the n-th write; before the first write the buffer holds
\* the zeros it was created with
Sample(n) == IF n >= 1 THEN n ELSE Unwritten

\* C15: a snapshot taken with no store of the callback in progress or in
\* between holds the RingLen most recent samples oldest first: index 0 the
\* sample written RingLen writes ago, the last index the sample written last;
\* and write_pos never decreases.
C15_SnapshotOldestFirst ==
  /\ [](ring.snap = "done" /\ ring.late = 0
         => \A j \in RingIdx : ring.result[j] = Sample(ring.at - RingLen + j + 1))
  /\ [][ring'.write_pos >= ring.write_pos]_vars

\* C15 witness: a snapshot without a race, taken after the ring had wrapped
\* and with the write position inside the buffer.
C15_Witness ==
  /\ ring.snap = "done"
  /\ ring.late = 0
  /\ ring.at > RingLen
  /\ ring.at % RingLen # 0
  /\ ring.result[0] = ring.at - RingLen + 1
  /\ ring.result[RingLen - 1] = ring.at

\* C16 as claimed: a snapshot that raced with late stores of the callback
\* differs from the snapshot without the race only in its last late samples.
C16_RaceOnlyLastStale ==
  (ring.snap = "done" /\ ring.late >= 1 /\ ring.late < RingLen)
    => \A j \in RingIdx :
         j < RingLen - ring.late => ring.result[j] = Sample(ring.at - RingLen + j + 1)

\* C16 as amended: a snapshot that raced with late stores of the callback
\* (late <= RingLen) differs from the snapshot without the race only in its
\* first late samples, each of which is either the sample it would hold or
\* the sample written RingLen writes after it; every other index holds the
\* sample it would hold without the race.
C16_RaceOnlyFirstNewer ==
  (ring.snap = "done" /\ ring.late <= RingLen)
    => \A j \in RingIdx :
         /\ j >= ring.late => ring.result[j] = Sample(ring.at - RingLen + j + 1)
         /\ j < ring.late =>
              ring.result[j] \in {Sample(ring.at - RingLen + j + 1), Sample(ring.at + j + 1)}

\* C16 witness: one store raced with the snapshot, whose first sample is
\* the newest one and whose last is the one written before the race.
C16_Witness ==
  /\ ring.snap = "done"
  /\ ring.late = 1
  /\ ring.at >= RingLen
  /\ ring.result[0] = ring.at + 1
  /\ ring.result[RingLen - 1] = ring.at

\* the n-th largest of the tone magnitudes of a window
NthLargest(w, n) ==
  CHOOSE v \in {w.mags[i] : i \in LetterIdx} :
    /\ Cardinality({i \in LetterIdx : w.mags[i] > v}) < n
    /\ Cardinality({i \in LetterIdx : w.mags[i] >= v}) >= n

\* C17: decode_selcal returns no pair when the third-largest tone magnitude
\* exceeds 0.85 times the second-largest, as it does for three tones of
\* equal non-zero magnitude.
C17_ThirdToneRejects ==
  (outcome = "decoded"
     /\ NthLargest(samples, 3) * 100 > NthLargest(samples, 2) * THIRD_TONE_FACTOR)
    => pair = None

\* C17 witness: three tones of the same magnitude, strong enough for every
\* other gate on the two of them ranked first, gave no pair.
C17_Witness ==
  /\ outcome = "decoded"
  /\ pair = None
  /\ NthLargest(samples, 3) = NthLargest(samples, 1)
  /\ NthLargest(samples, 3) * NthLargest(samples, 3) * 2 >= PAIR_POWER_MIN
  /\ Cardinality({i \in LetterIdx : samples.mags[i] = NthLargest(samples, 1)}) = 3
  /\ \E i \in LetterIdx : samples.mags[i] = 0

\* the tones of a window whose power is at or above GOERTZEL_MIN_POWER
TonesAboveFloor(w) ==
  {i \in LetterIdx : goertzel_power(w, i) >= GOERTZEL_MIN_POWER}

\* C18: decode_selcal returns no pair for a window with fewer than two
\* tones of power at or above GOERTZEL_MIN_POWER; confirm_dual_tone rejects
\* the two tones ranked first.
C18_PowerFloor ==
  (outcome = "decoded" /\ Cardinality(TonesAboveFloor(samples)) < 2)
    => /\ pair = None
       /\ ~confirm_dual_tone(samples, ranked(samples)[1], ranked(samples)[2])

\* C18 witness: one strong tone and a second just under the floor, well
\* clear of the third and of the noise, gave no pair.
C18_Witness ==
  /\ outcome = "decoded"
  /\ pair = None
  /\ Cardinality(TonesAboveFloor(samples)) = 1
  /\ NthLargest(samples, 2) > 0
  /\ goertzel_power(samples, ranked(samples)[2]) < GOERTZEL_MIN_POWER
  /\ ~third_tone_rivals(NthLargest(samples, 2), NthLargest(samples, 3))
  /\ ~BelowNoise(goertzel_power(samples, ranked(samples)[2]), samples)

\* C19: last_full_code and last_full_time change only on a tick that
\* prints; a tick whose code fails validation or is suppressed by the lockout
\* leaves both unchanged; so while the loop runs they are the code and the
\* time of the last line printed.
C19_LockoutStateOnlyOnEmit ==
  /\ [][ Ticked =>
          /\ (last_full_code' # last_full_code \/ last_full_time' # last_full_time)
               => stdout' # stdout
          /\ (code' # None /\ ~FourDistinctLetters(code'))
               => (last_full_code' = last_full_code /\ last_full_time' = last_full_time)
          /\ (code' # None /\ code' = last_full_code
                 /\ clock' - last_full_time < FULL_CODE_LOCKOUT)
               => (last_full_code' = last_full_code /\ last_full_time' = last_full_time) ]_vars
  /\ []((pc = "listening" /\ stdout # << >>)
          => /\ last_full_code = stdout[Len(stdout)][2]
             /\ last_full_time = emit_at[Len(emit_at)])

\* C19 witness: a repeat of the last code was suppressed and the lockout
\* still runs from the emission, which lies at least two ticks back.
C19_Witness ==
  /\ outcome = "locked_out"
  /\ Len(stdout) = 1
  /\ code = stdout[1][2]
  /\ last_full_time = emit_at[1]
  /\ clock - last_full_time >= 2 * STEP_SECONDS
  /\ clock - last_full_time < FULL_CODE_LOCKOUT

\* the same for a code that failed validation after an emission
C19_InvalidAfterEmission ==
  /\ outcome = "invalid"
  /\ Len(stdout) = 1
  /\ last_full_time = emit_at[1]
  /\ last_full_time < clock

\* C20: a tick skipped by the silence gate or on which decode_selcal returns
\* no pair leaves first_pair, first_time, last_full_code and last_full_time
\* unchanged and prints nothing; and the tracker leaves AWAITING_SECOND only
\* on a tick whose decoded pair differs from first_pair.
C20_SkippedTickKeepsState ==
  [][ /\ (Ticked /\ (Silent(samples') \/ decode_selcal(samples') = None))
          => /\ first_pair' = first_pair
             /\ first_time' = first_time
             /\ last_full_code' = last_full_code
             /\ last_full_time' = last_full_time
             /\ stdout' = stdout
      /\ (first_pair # None /\ first_pair' # first_pair)
          => (Ticked /\ pair' # None /\ pair' # first_pair) ]_vars

\* C20 witness: a tick without a pair found the tracker waiting for longer
\* than PAIR_GAP_MAX and left it waiting.
C20_Witness ==
  /\ outcome = "no_pair"
  /\ ~Silent(samples)
  /\ first_pair # None
  /\ clock - first_time > PAIR_GAP_MAX

\* the same for a tick skipped by the silence gate
C20_SilentStale ==
  /\ outcome = "silence"
  /\ first_pair # None
  /\ clock - first_time > PAIR_GAP_MAX

====
